---- MODULE Spec2Model ----
(***************************************************************************)
(* Model of PriceElasticityModel (src/price_elasticity_model.py).          *)
(*                                                                         *)
(* Numbers.  Prices and sales of the model are powers of two, so that the  *)
(* logarithms are integers (base 2).  The slope of a log-log regression    *)
(* does not depend on the base of the logarithm, so the elasticity the     *)
(* model computes is the exact value of the one the code computes with     *)
(* natural logarithms.  Reals are exact rationals <<num, den>>, den > 0,   *)
(* in lowest terms; floating-point rounding is not modelled.               *)
(*                                                                         *)
(* Tables.  A table is [cols, rows]: cols is the set of the canonical      *)
(* columns ("price", "sales", "category") the frame has after the rename   *)
(* of load_data, i.e. the ones whose named source column exists in the     *)
(* file; a row keeps a placeholder in a column the frame does not have,    *)
(* and the model never reads it (reading it is the code's KeyError).       *)
(* Columns p_value, r_squared and median_price of the result rows decide   *)
(* no branch of the code and are left out.                                 *)
(***************************************************************************)
EXTENDS Integers, Sequences, FiniteSets

VARIABLES
  source,              \* the CSV file handed to load_data
  df,                  \* self.df
  elasticity_results,  \* self.elasticity_results
  ret,                 \* the last call: its name, arguments and outcome
  app                  \* the session of app.py: st.session_state, the widgets
                       \* and the position of the running script

vars == <<source, df, elasticity_results, ret, app>>

----------------------------------------------------------------------------
(* Bounds of the model *)

MaxRows == 3

MaxMinObs == 3

MaxRawRows == 2

MaxNum == 16

MaxDen == 6

----------------------------------------------------------------------------
(* Exact rationals *)

RECURSIVE GCD(_, _)
GCD(a, b) == IF b = 0 THEN a ELSE GCD(b, a % b)

IAbs(a) == IF a < 0 THEN -a ELSE a

Rat(n, d) ==
  LET s == IF d < 0 THEN -1 ELSE 1
      g == GCD(IAbs(n), IAbs(d))
  IN  <<(s * n) \div g, (s * d) \div g>>

FromInt(i) == <<i, 1>>

RAdd(a, b) == Rat(a[1] * b[2] + b[1] * a[2], a[2] * b[2])

RSub(a, b) == Rat(a[1] * b[2] - b[1] * a[2], a[2] * b[2])

RMul(a, b) == Rat(a[1] * b[1], a[2] * b[2])

RDivInt(a, n) == Rat(a[1], a[2] * n)

RLt(a, b) == a[1] * b[2] < b[1] * a[2]

RLe(a, b) == a[1] * b[2] <= b[1] * a[2]

RAbs(a) == <<IAbs(a[1]), a[2]>>

Zero == FromInt(0)

One == FromInt(1)

Hundred == FromInt(100)

----------------------------------------------------------------------------
(* Cells, records and tables *)

NA == [tag |-> "na", v |-> 0]

Inf == [tag |-> "inf", v |-> 0]

Num(v) == [tag |-> "num", v |-> v]

\* Cells of a file whose rows all pass the cleaning
PriceCells == {Num(1), Num(2), Inf}

SalesCells == {Num(1), Num(4)}

\* Cells of a raw file: missing and non-positive values too
RawPriceCells == {NA, Num(0), Num(1), Num(2), Inf}

RawSalesCells == {NA, Num(0), Num(1), Num(4)}

Categories == {"A", "B"}

NoCategory == "-"

AllCols == {"price", "sales", "category"}

\* pandas: NaN > 0 is False, inf > 0 is True
IsPositive(c) == c.tag = "inf" \/ (c.tag = "num" /\ c.v > 0)

IsMissing(c) == c.tag = "na"

RowsOver(cols, prices, sales) ==
  [price : IF "price" \in cols THEN prices ELSE {NA},
   sales : IF "sales" \in cols THEN sales ELSE {NA},
   category : IF "category" \in cols THEN Categories ELSE {NoCategory}]

NoFrame == [exists |-> FALSE, cols |-> {}, rows |-> <<>>]

NoValue == [none |-> TRUE]

Call(op, args, status, value) ==
  [op |-> op, args |-> args, status |-> status, value |-> value]

----------------------------------------------------------------------------
(* Sequence helpers *)

RECURSIVE SumSeq(_)
SumSeq(s) == IF s = <<>> THEN 0 ELSE Head(s) + SumSeq(Tail(s))

\* one column of a frame, as the sequence of its values
Prices(rows) == [i \in 1..Len(rows) |-> rows[i].price.v]

Sales(rows) == [i \in 1..Len(rows) |-> rows[i].sales.v]

----------------------------------------------------------------------------
(* __init__ *)

\* app.py lines 43-46 and the widgets before the first run of the script:
\* no button has been shown, the script is not running, nothing was called
NoSession ==
  [pc |-> "idle",
   data_loaded |-> FALSE,
   analysis_done |-> FALSE,
   run_button |-> FALSE,
   sim_button |-> FALSE,
   run_clicked |-> FALSE,
   sim_clicked |-> FALSE,
   calls |-> <<>>]

Fresh ==
  /\ df = NoFrame
  /\ elasticity_results = NoFrame
  /\ ret = Call("__init__", <<>>, "ok", NoValue)
  /\ app = NoSession

Init ==
  /\ \E cols \in SUBSET AllCols, k \in 0..MaxRows :
       \E rows \in [1..k -> RowsOver(cols, PriceCells, SalesCells)] :
         source = [cols |-> cols, rows |-> rows]
  /\ Fresh

InitLoad ==
  /\ \E cols \in SUBSET AllCols, k \in 0..MaxRawRows :
       \E rows \in [1..k -> RowsOver(cols, RawPriceCells, RawSalesCells)] :
         source = [cols |-> cols, rows |-> rows]
  /\ Fresh

----------------------------------------------------------------------------
(* load_data *)

\* line 47: dropna(subset=['price', 'sales'])
DropNa(rows) ==
  SelectSeq(rows, LAMBDA r : ~IsMissing(r.price) /\ ~IsMissing(r.sales))

KeepPositivePriceOnly(rows) == SelectSeq(rows, LAMBDA r : IsPositive(r.price))

\* line 48: df[(df['price'] > 0) & (df['sales'] > 0)]
KeepPositive(rows) ==
  SelectSeq(rows, LAMBDA r : IsPositive(r.price) /\ IsPositive(r.sales))

CleanRows(rows) == KeepPositive(DropNa(rows))

RemovalPct(removed_records, original_size) ==
  IF original_size > 0
    THEN RMul(Rat(removed_records, original_size), Hundred)
    ELSE Zero

LoadReport(original_size, cleaned_size) ==
  [original_size |-> original_size,
   cleaned_size |-> cleaned_size,
   removed_records |-> original_size - cleaned_size,
   removal_pct |-> RemovalPct(original_size - cleaned_size, original_size)]

\* lines 36-43 store the renamed frame; dropna raises KeyError when the frame
\* has no 'price' or no 'sales' column, and the raw frame stays in self.df.
load_data ==
  LET raw == [exists |-> TRUE, cols |-> source.cols, rows |-> source.rows]
      original_size == Len(raw.rows)
      cleaned == CleanRows(raw.rows)
  IN  /\ IF {"price", "sales"} \subseteq raw.cols
           THEN /\ df' = [raw EXCEPT !.rows = cleaned]
                /\ ret' = Call("load_data", <<>>, "ok",
                                LoadReport(original_size, Len(cleaned)))
           ELSE /\ df' = raw
                /\ ret' = Call("load_data", <<>>, "raise", NoValue)
      /\ UNCHANGED <<source, elasticity_results>>

----------------------------------------------------------------------------
(* The regression of one category: statsmodels' add_constant and OLS *)

RECURSIVE Log2(_)
Log2(v) == IF v <= 1 THEN 0 ELSE 1 + Log2(v \div 2)

\* line 81, 82: np.log of a positive finite cell
LogPrice(r) == Log2(r.price.v)

LogSales(r) == Log2(r.sales.v)

\* sm.OLS raises (exog contains inf or nans) when a log_price is not finite:
\* a price of inf passes the cleaning, and its logarithm is inf.
FitRaises(cat_data) == \E i \in 1..Len(cat_data) : cat_data[i].price.tag # "num"

\* lines 85-90.  add_constant leaves out the intercept when log_price is one
\* nonzero value in every row (has_constant='skip'), which makes the fit a
\* regression through the origin; when log_price is 0 in every row the design
\* is [1, 0] and the minimum-norm solution (pinv) has slope 0; otherwise the
\* slope is the least-squares slope with intercept.
FitSlope(cat_data) ==
  LET n   == Len(cat_data)
      x   == [i \in 1..n |-> LogPrice(cat_data[i])]
      y   == [i \in 1..n |-> LogSales(cat_data[i])]
      Sx  == SumSeq(x)
      Sy  == SumSeq(y)
      Sxx == SumSeq([i \in 1..n |-> x[i] * x[i]])
      Sxy == SumSeq([i \in 1..n |-> x[i] * y[i]])
      constant_x == \A i \in 1..n : LogPrice(cat_data[i]) = LogPrice(cat_data[1])
  IN  IF constant_x
        THEN IF Sxx = 0 THEN Zero ELSE Rat(Sxy, Sxx)
        ELSE Rat(n * Sxy - Sx * Sy, n * Sxx - Sx * Sx)

----------------------------------------------------------------------------
(* _classify_demand, lines 121-133 *)

Half == <<1, 2>>

OneAndHalf == <<3, 2>>

ClassifyClosedAtOneAndHalf(elasticity) ==
  LET abs_elasticity == RAbs(elasticity)
  IN  IF RLt(abs_elasticity, Half) THEN "Highly Inelastic"
      ELSE IF RLt(abs_elasticity, One) THEN "Inelastic"
      ELSE IF abs_elasticity = One THEN "Unit Elastic"
      ELSE IF RLt(One, abs_elasticity) /\ RLe(abs_elasticity, OneAndHalf)
        THEN "Elastic"
      ELSE "Highly Elastic"

_classify_demand(elasticity) ==
  LET abs_elasticity == RAbs(elasticity)
  IN  IF RLt(abs_elasticity, Half) THEN "Highly Inelastic"
      ELSE IF RLt(abs_elasticity, One) THEN "Inelastic"
      ELSE IF abs_elasticity = One THEN "Unit Elastic"
      ELSE IF RLt(One, abs_elasticity) /\ RLt(abs_elasticity, OneAndHalf)
        THEN "Elastic"
      ELSE "Highly Elastic"

CanIncreasePriceByMagnitude(x) == IF RLt(One, RAbs(x)) THEN "No" ELSE "Yes"

\* lines 115-117: lambda x: 'No' if x > 1 else 'Yes'
CanIncreasePrice(x) == IF RLt(One, x) THEN "No" ELSE "Yes"

----------------------------------------------------------------------------
(* calculate_elasticity, lines 59-119 *)

\* line 74: df['category'].unique(), in order of first appearance
RECURSIVE Unique(_)
Unique(rows) ==
  IF rows = <<>> THEN <<>>
  ELSE LET c == Head(rows).category
       IN  <<c>> \o Unique(SelectSeq(Tail(rows), LAMBDA r : r.category # c))

\* line 75
CatData(rows, category) == SelectSeq(rows, LAMBDA r : r.category = category)

\* lines 94-103
ResultRow(category, cat_data) ==
  [category |-> category,
   elasticity |-> FitSlope(cat_data),
   avg_price |-> Rat(SumSeq(Prices(cat_data)), Len(cat_data)),
   total_sales |-> SumSeq(Sales(cat_data)),
   num_products |-> Len(cat_data)]

\* line 77: if len(cat_data) < min_observations: continue
TooFewOffByOne(cat_data, min_observations) == Len(cat_data) <= min_observations

TooFew(cat_data, min_observations) == Len(cat_data) < min_observations

\* lines 74-106: the loop.  Its outcome is <<status, rows>>; the status is
\* "raise" when line 81 or 82 reads a column the frame does not have.
RECURSIVE Loop(_, _, _, _)
Loop(frame, categories, min_observations, acc) ==
  IF categories = <<>> THEN <<"ok", acc>>
  ELSE LET category == Head(categories)
           cat_data == CatData(frame.rows, category)
           rest     == Tail(categories)
       IN  IF TooFew(cat_data, min_observations)
             THEN Loop(frame, rest, min_observations, acc)
           ELSE IF ~({"price", "sales"} \subseteq frame.cols)
             THEN <<"raise", acc>>
           ELSE IF FitRaises(cat_data)
             THEN Loop(frame, rest, min_observations, acc)
           ELSE Loop(frame, rest, min_observations,
                     Append(acc, ResultRow(category, cat_data)))

\* line 109: sort_values('elasticity', ascending=False).  The default sort
\* (quicksort) is not stable: rows of equal elasticity come in any order.
IsSortedAsc(rows) ==
  \A i \in 1..(Len(rows) - 1) : RLe(rows[i].elasticity, rows[i + 1].elasticity)

IsSortedDesc(rows) ==
  \A i \in 1..(Len(rows) - 1) : RLe(rows[i + 1].elasticity, rows[i].elasticity)

SortedDesc(rows) ==
  {[i \in 1..Len(rows) |-> rows[p[i]]] :
     p \in {q \in [1..Len(rows) -> 1..Len(rows)] :
              /\ \A i, j \in 1..Len(rows) : i # j => q[i] # q[j]
              /\ IsSortedDesc([i \in 1..Len(rows) |-> rows[q[i]]])}}

\* lines 112-117
Classified(rows) ==
  [i \in 1..Len(rows) |->
     [category |-> rows[i].category,
      elasticity |-> rows[i].elasticity,
      avg_price |-> rows[i].avg_price,
      total_sales |-> rows[i].total_sales,
      num_products |-> rows[i].num_products,
      demand_type |-> _classify_demand(rows[i].elasticity),
      can_increase_price |-> CanIncreasePrice(rows[i].elasticity)]]

\* pd.DataFrame([]) has no columns: sort_values('elasticity') raises KeyError
\* after line 108 stored the empty frame.
EmptyFrame == [exists |-> TRUE, cols |-> {}, rows |-> <<>>]

ResultCols == {"category", "elasticity", "avg_price", "total_sales",
               "num_products", "demand_type", "can_increase_price"}

calculate_elasticity(min_observations) ==
  LET args == <<min_observations>>
      out  == Loop(df, Unique(df.rows), min_observations, <<>>)
  IN  /\ IF ~df.exists \/ "category" \notin df.cols
           THEN \* line 74: TypeError on None, KeyError on the missing column
                /\ ret' = Call("calculate_elasticity", args, "raise", NoValue)
                /\ UNCHANGED elasticity_results
         ELSE IF out[1] = "raise"
           THEN /\ ret' = Call("calculate_elasticity", args, "raise", NoValue)
                /\ UNCHANGED elasticity_results
         ELSE IF out[2] = <<>>
           THEN /\ elasticity_results' = EmptyFrame
                /\ ret' = Call("calculate_elasticity", args, "raise", NoValue)
         ELSE \E sorted \in SortedDesc(out[2]) :
                /\ elasticity_results' =
                     [exists |-> TRUE, cols |-> ResultCols,
                      rows |-> Classified(sorted)]
                /\ ret' = Call("calculate_elasticity", args, "ok",
                                elasticity_results')
      /\ UNCHANGED <<source, df>>

MinObservations == 1..MaxMinObs

----------------------------------------------------------------------------
(* simulate_price_change, lines 151-198 *)

SimulationAdditive(row, category, price_change_pct) ==
  LET elasticity == row.elasticity
      quantity_change == RMul(elasticity, price_change_pct)
      revenue_change == RAdd(price_change_pct, quantity_change)
      estimated_revenue_impact == RMul(FromInt(row.total_sales), revenue_change)
  IN  [category |-> category,
       current_price |-> row.avg_price,
       new_price |-> RMul(row.avg_price, RAdd(One, price_change_pct)),
       elasticity |-> elasticity,
       price_change_pct |-> RMul(price_change_pct, Hundred),
       quantity_change_pct |-> RMul(quantity_change, Hundred),
       revenue_change_pct |-> RMul(revenue_change, Hundred),
       estimated_revenue_impact |-> estimated_revenue_impact,
       current_total_sales |-> FromInt(row.total_sales)]

Simulation(row, category, price_change_pct) ==
  LET elasticity == row.elasticity
      quantity_change == RMul(elasticity, price_change_pct)
      revenue_change ==
        RSub(RMul(RAdd(One, price_change_pct), RAdd(One, quantity_change)), One)
      estimated_revenue_impact == RMul(FromInt(row.total_sales), revenue_change)
  IN  [category |-> category,
       current_price |-> row.avg_price,
       new_price |-> RMul(row.avg_price, RAdd(One, price_change_pct)),
       elasticity |-> elasticity,
       price_change_pct |-> RMul(price_change_pct, Hundred),
       quantity_change_pct |-> RMul(quantity_change, Hundred),
       revenue_change_pct |-> RMul(revenue_change, Hundred),
       estimated_revenue_impact |-> estimated_revenue_impact,
       current_total_sales |-> FromInt(row.total_sales)]

\* lines 166-176: <<status, value>>; reading column 'category' of the frame
\* without columns raises KeyError
Simulate(results, category, price_change_pct) ==
  LET category_data == SelectSeq(results.rows, LAMBDA r : r.category = category)
  IN  IF ~results.exists THEN <<"none", NoValue>>
      ELSE IF "category" \notin results.cols THEN <<"raise", NoValue>>
      ELSE IF Len(category_data) = 0 THEN <<"none", NoValue>>
      ELSE <<"ok", Simulation(category_data[1], category, price_change_pct)>>

simulate_price_change(category, price_change_pct) ==
  LET out == Simulate(elasticity_results, category, price_change_pct)
  IN  /\ ret' = Call("simulate_price_change", <<category, price_change_pct>>,
                      out[1], out[2])
      /\ UNCHANGED <<source, df, elasticity_results>>

\* The calls of simulate_price_change: a price rise of 5% for "A", a price
\* cut of 10% for "B", and a name no file has.  The files are closed under
\* the exchange of "A" and "B", so every shape of dataset meets both changes.
SimulationCalls == {<<"A", <<1, 20>>>>, <<"B", <<-1, 10>>>>, <<"Z", <<1, 20>>>>}

----------------------------------------------------------------------------
(* get_summary_stats, lines 200-216 *)

RECURSIVE RSum(_)
RSum(s) == IF s = <<>> THEN Zero ELSE RAdd(Head(s), RSum(Tail(s)))

SummaryStats(rows) ==
  LET inelastic_count ==
        Cardinality({i \in 1..Len(rows) : RLt(rows[i].elasticity, One)})
      total_count == Len(rows)
  IN  [total_categories |-> total_count,
       inelastic_categories |-> inelastic_count,
       elastic_categories |-> total_count - inelastic_count,
       inelastic_pct |->
         IF total_count > 0
           THEN RMul(Rat(inelastic_count, total_count), Hundred)
           ELSE Zero,
       avg_elasticity |->
         RDivInt(RSum([i \in 1..Len(rows) |-> rows[i].elasticity]),
                 total_count)]

\* <<status, value>>; line 205 reads column 'elasticity': KeyError on the
\* frame without columns.  A frame with columns has at least one row.
Summary(results) ==
  IF ~results.exists THEN <<"none", NoValue>>
  ELSE IF "elasticity" \notin results.cols THEN <<"raise", NoValue>>
  ELSE <<"ok", SummaryStats(results.rows)>>

get_summary_stats ==
  LET out == Summary(elasticity_results)
  IN  /\ ret' = Call("get_summary_stats", <<>>, out[1], out[2])
      /\ UNCHANGED <<source, df, elasticity_results>>

----------------------------------------------------------------------------
(* _classify_demand called on its own *)

ElasticityInputs == {Rat(n, d) : n \in (-MaxNum)..MaxNum, d \in 1..MaxDen}

ClassifyDemand(elasticity) ==
  /\ ret' = Call("_classify_demand", <<elasticity>>, "ok",
                  [label |-> _classify_demand(elasticity)])
  /\ UNCHANGED <<source, df, elasticity_results>>

InitClassify ==
  /\ source = [cols |-> {}, rows |-> <<>>]
  /\ Fresh

NextClassify ==
  \E elasticity \in ElasticityInputs :
    ClassifyDemand(elasticity) /\ UNCHANGED app

----------------------------------------------------------------------------
(* get_inelastic_categories, lines 135-141 *)

IsSortedByAvgPriceDesc(rows) ==
  \A i \in 1..(Len(rows) - 1) : RLe(rows[i + 1].avg_price, rows[i].avg_price)

\* line 139: the rows with elasticity < 1, then sort_values('avg_price',
\* ascending=False); rows of equal avg_price come in either order
InelasticRows(rows) ==
  LET kept == SelectSeq(rows, LAMBDA r : RLt(r.elasticity, One))
  IN  {[i \in 1..Len(kept) |-> kept[p[i]]] :
         p \in {q \in [1..Len(kept) -> 1..Len(kept)] :
                  /\ \A i, j \in 1..Len(kept) : i # j => q[i] # q[j]
                  /\ IsSortedByAvgPriceDesc([i \in 1..Len(kept) |-> kept[q[i]]])}}

\* the outcomes <<status, value>>; line 138 returns pd.DataFrame() when there
\* are no results, line 139 raises KeyError on the frame without columns
Inelastic(results) ==
  IF ~results.exists THEN {<<"ok", EmptyFrame>>}
  ELSE IF "elasticity" \notin results.cols THEN {<<"raise", NoValue>>}
  ELSE {<<"ok", [exists |-> TRUE, cols |-> results.cols, rows |-> rows]>> :
          rows \in InelasticRows(results.rows)}

get_inelastic_categories ==
  /\ \E out \in Inelastic(elasticity_results) :
       ret' = Call("get_inelastic_categories", <<>>, out[1], out[2])
  /\ UNCHANGED <<source, df, elasticity_results>>

----------------------------------------------------------------------------
(* get_correlation, lines 218-222 *)

NaN == [nan |-> TRUE, sign |-> 0, squared |-> Zero]

Sign(n) == IF n > 0 THEN 1 ELSE IF n < 0 THEN -1 ELSE 0

\* Series.corr: Pearson's r over the records where both cells are present,
\* given by its sign and its square; NaN with fewer than two records, with a
\* column of no variance, or with an infinite cell
Correlation(rows) ==
  LET present == DropNa(rows)
      n == Len(present)
      finite == \A i \in 1..n : /\ present[i].price.tag = "num"
                                /\ present[i].sales.tag = "num"
      x == Prices(present)
      y == Sales(present)
      sxx == n * SumSeq([i \in 1..n |-> x[i] * x[i]]) - SumSeq(x) * SumSeq(x)
      syy == n * SumSeq([i \in 1..n |-> y[i] * y[i]]) - SumSeq(y) * SumSeq(y)
      sxy == n * SumSeq([i \in 1..n |-> x[i] * y[i]]) - SumSeq(x) * SumSeq(y)
  IN  IF n < 2 \/ ~finite THEN NaN
      ELSE IF sxx = 0 \/ syy = 0 THEN NaN
      ELSE [nan |-> FALSE, sign |-> Sign(sxy),
            squared |-> Rat(sxy * sxy, sxx * syy)]

get_correlation ==
  /\ IF ~df.exists
       THEN ret' = Call("get_correlation", <<>>, "none", NoValue)
     ELSE IF ~({"price", "sales"} \subseteq df.cols)
       THEN ret' = Call("get_correlation", <<>>, "raise", NoValue)
     ELSE ret' = Call("get_correlation", <<>>, "ok", Correlation(df.rows))
  /\ UNCHANGED <<source, df, elasticity_results>>

----------------------------------------------------------------------------
(* app.py: one session of the Streamlit script.  Every interaction reruns  *)
(* the script from the top; st.session_state and the model in it outlive   *)
(* the run.  app.pc is the call the running script has arrived at, and     *)
(* "idle" between two runs.  The uploaded file and the names of its        *)
(* columns are those of the whole session.                                 *)

\* the records of the uploaded files
MaxAppRows == 5

AppPriceCells == {Num(2)}

AppSalesCells == {Num(1), Num(4)}

\* line 69-74: the slider of min_observations starts at 5 (and ends at 50)
MinSlider == 5

MaxSlider == 6

SliderValues == MinSlider..MaxSlider

\* lines 243-249: the slider of the price change, in percent, over 100
AppPriceChanges == {<<1, 20>>, <<-1, 5>>}

InitApp ==
  /\ \E cols \in SUBSET AllCols, k \in 0..MaxAppRows :
       \E rows \in [1..k -> RowsOver(cols, AppPriceCells, AppSalesCells)] :
         source = [cols |-> cols, rows |-> rows]
  /\ Fresh

\* the script calls op and it ends with status: the call is written down with
\* the flags of the session at the time of the call
Called(a, op, status) ==
  [a EXCEPT !.calls = Append(@, [op |-> op, status |-> status,
                                 data_loaded |-> a.data_loaded,
                                 analysis_done |-> a.analysis_done])]

\* line 110 and the end of the script
AtDisplay(a) ==
  IF a.analysis_done THEN [a EXCEPT !.pc = "summary"]
                     ELSE [a EXCEPT !.pc = "idle"]

\* lines 96, 97: the button is shown while the analysis is not done
AtAnalysis(a) ==
  IF a.data_loaded /\ ~a.analysis_done
    THEN IF a.run_clicked
           THEN [a EXCEPT !.run_button = TRUE, !.pc = "analysis"]
           ELSE AtDisplay([a EXCEPT !.run_button = TRUE])
    ELSE AtDisplay(a)

\* lines 78, 80 and 331
AtLoad(a, uploaded) ==
  IF ~uploaded THEN [a EXCEPT !.pc = "idle"]
  ELSE IF ~a.data_loaded THEN [a EXCEPT !.pc = "load"]
  ELSE AtAnalysis(a)

\* lines 89-93 after the call of line 83 ended with status
AfterLoad(a, status) ==
  IF status = "ok"
    THEN AtAnalysis(Called([Called(a, "load_data", status)
                              EXCEPT !.data_loaded = TRUE],
                           "data_loaded = True", "ok"))
    ELSE [Called(a, "load_data", status) EXCEPT !.pc = "idle"]

AfterAnalysisOutsideTry(a, status) ==
  AtDisplay(Called([Called(a, "calculate_elasticity", status)
                      EXCEPT !.analysis_done = TRUE],
                   "analysis_done = True", "ok"))

\* lines 103-107 after the call of line 100 ended with status
AfterAnalysis(a, status) ==
  IF status = "ok"
    THEN AtDisplay(Called([Called(a, "calculate_elasticity", status)
                             EXCEPT !.analysis_done = TRUE],
                          "analysis_done = True", "ok"))
    ELSE [Called(a, "calculate_elasticity", status) EXCEPT !.pc = "idle"]

\* lines 112-126: a summary of None cannot be subscripted, the run ends there
AfterSummary(a, status) ==
  [Called(a, "get_summary_stats", status)
     EXCEPT !.pc = IF status = "ok" THEN "inelastic" ELSE "idle"]

\* lines 201-251: the button of the simulation is shown
AfterInelastic(a, status) ==
  IF status = "ok"
    THEN [Called(a, "get_inelastic_categories", status)
            EXCEPT !.sim_button = TRUE,
                   !.pc = IF a.sim_clicked THEN "simulation" ELSE "correlation"]
    ELSE [Called(a, "get_inelastic_categories", status) EXCEPT !.pc = "idle"]

\* lines 257-328
AfterSimulation(a, status) ==
  [Called(a, "simulate_price_change", status)
     EXCEPT !.pc = IF status = "raise" THEN "idle" ELSE "correlation"]

\* line 329 and the end of the script
AfterCorrelation(a, status) ==
  [Called(a, "get_correlation", status) EXCEPT !.pc = "idle"]

\* A run of the script starts: the file is uploaded or not, and at most one
\* of the buttons shown by the run before has been pressed.  Without a file
\* the run is the welcome screen; with the data loaded and no button pressed
\* it calls nothing.
Rerun ==
  /\ app.pc = "idle"
  /\ \E uploaded \in BOOLEAN,
        run_clicked \in IF app.run_button THEN BOOLEAN ELSE {FALSE},
        sim_clicked \in IF app.sim_button THEN BOOLEAN ELSE {FALSE} :
       /\ ~(run_clicked /\ sim_clicked)
       /\ app' = AtLoad([app EXCEPT !.run_clicked = run_clicked,
                                    !.sim_clicked = sim_clicked,
                                    !.run_button = FALSE,
                                    !.sim_button = FALSE,
                                    !.calls = <<>>],
                        uploaded)
  /\ UNCHANGED <<source, df, elasticity_results, ret>>

\* lines 80-93
AppLoad ==
  /\ app.pc = "load"
  /\ load_data
  /\ app' = AfterLoad(app, ret'.status)

\* lines 96-107
AppAnalysis ==
  /\ app.pc = "analysis"
  /\ \E min_observations \in SliderValues :
       calculate_elasticity(min_observations)
  /\ app' = AfterAnalysis(app, ret'.status)

\* line 112
AppSummary ==
  /\ app.pc = "summary"
  /\ get_summary_stats
  /\ app' = AfterSummary(app, ret'.status)

\* line 201
AppInelastic ==
  /\ app.pc = "inelastic"
  /\ get_inelastic_categories
  /\ app' = AfterInelastic(app, ret'.status)

\* lines 230-255: the category is one of the results
AppSimulation ==
  /\ app.pc = "simulation"
  /\ \E i \in 1..Len(elasticity_results.rows),
        price_change_pct \in AppPriceChanges :
       simulate_price_change(elasticity_results.rows[i].category,
                             price_change_pct)
  /\ app' = AfterSimulation(app, ret'.status)

\* line 328
AppCorrelation ==
  /\ app.pc = "correlation"
  /\ get_correlation
  /\ app' = AfterCorrelation(app, ret'.status)

----------------------------------------------------------------------------
(* Specifications *)

\* The methods of the model called directly, without the app
Next ==
  \/ load_data /\ UNCHANGED app
  \/ \E min_observations \in MinObservations :
       calculate_elasticity(min_observations) /\ UNCHANGED app
  \/ \E call \in SimulationCalls :
       simulate_price_change(call[1], call[2]) /\ UNCHANGED app
  \/ get_summary_stats /\ UNCHANGED app

\* The loader and the estimator alone, on raw files
NextLoad ==
  \/ load_data /\ UNCHANGED app
  \/ \E min_observations \in MinObservations :
       calculate_elasticity(min_observations) /\ UNCHANGED app

Spec == Init /\ [][Next]_vars

SpecLoad == InitLoad /\ [][NextLoad]_vars

\* A session of the app
NextApp ==
  \/ Rerun
  \/ AppLoad
  \/ AppAnalysis
  \/ AppSummary
  \/ AppInelastic
  \/ AppSimulation
  \/ AppCorrelation

SpecClassify == InitClassify /\ [][NextClassify]_vars

SpecApp == InitApp /\ [][NextApp]_vars

----------------------------------------------------------------------------
(* Vocabulary of the properties *)

Returned(op) == ret.op = op /\ ret.status = "ok"

\* the number of records of a category in the stored dataset
Count(category) ==
  Cardinality({i \in 1..Len(df.rows) : df.rows[i].category = category})

ResultIndices(results, category) ==
  {i \in 1..Len(results.rows) : results.rows[i].category = category}

InResult(results, category) == ResultIndices(results, category) # {}

\* the stored dataset is one a load_data call returned
Cleaned == df.exists /\ {"price", "sales"} \subseteq df.cols

\* the label the specification gives to a magnitude, by interval
IntervalLabel(m) ==
  CASE m[1] * 2 < m[2]                         -> "Highly Inelastic"
    [] m[1] * 2 >= m[2] /\ m[1] < m[2]         -> "Inelastic"
    [] m[1] = m[2]                             -> "Unit Elastic"
    [] m[1] > m[2] /\ m[1] * 2 < 3 * m[2]      -> "Elastic"
    [] m[1] * 2 >= 3 * m[2]                    -> "Highly Elastic"

Magnitude(e) == IF e[1] < 0 THEN <<-e[1], e[2]>> ELSE e

Negated(e) == <<-e[1], e[2]>>

----------------------------------------------------------------------------
(* C1 *)

\* C1 as stated: a category is in the result set returned by
\* calculate_elasticity(min_observations) iff the cleaned dataset holds at
\* least min_observations records of it; every row has num_products >=
\* min_observations; no category is in two rows.
C1_MembershipByCountAlone ==
  Returned("calculate_elasticity") =>
    /\ \A c \in Categories :
         InResult(ret.value, c) <=> Count(c) >= ret.args[1]
    /\ \A i \in 1..Len(ret.value.rows) :
         ret.value.rows[i].num_products >= ret.args[1]
    /\ \A c \in Categories : Cardinality(ResultIndices(ret.value, c)) <= 1

\* C1 amended: a category is in the returned result set iff the cleaned
\* dataset holds at least min_observations (>= 1) records of it and its
\* regression did not raise (a price of inf makes the fit raise, and the
\* category is skipped); every row has num_products equal to the category's
\* record count, which is >= min_observations; no category is in two rows.
C1_MembershipByCountAndFit ==
  Returned("calculate_elasticity") =>
    /\ \A c \in Categories :
         InResult(ret.value, c) <=>
           /\ Count(c) >= ret.args[1]
           /\ \A i \in 1..Len(df.rows) :
                df.rows[i].category = c => df.rows[i].price.tag # "inf"
    /\ \A i \in 1..Len(ret.value.rows) :
         /\ ret.value.rows[i].num_products = Count(ret.value.rows[i].category)
         /\ ret.value.rows[i].num_products >= ret.args[1]
    /\ \A c \in Categories : Cardinality(ResultIndices(ret.value, c)) <= 1
    /\ ret.value = elasticity_results

\* a run returned one category and left out another that has records, but
\* fewer than min_observations
C1_Witness ==
  /\ Returned("calculate_elasticity")
  /\ \E c, d \in Categories :
       /\ InResult(ret.value, c)
       /\ ~InResult(ret.value, d)
       /\ Count(d) > 0
       /\ Count(d) < ret.args[1]

----------------------------------------------------------------------------
(* C2 *)

\* C2: after load_data returns, every stored record has price and sales
\* present and > 0, removed_records = original_size - cleaned_size >= 0,
\* original_size is the size of the file and cleaned_size the number of
\* stored records.
C2_CleanedDataset ==
  Returned("load_data") =>
    /\ \A i \in 1..Len(df.rows) :
         /\ df.rows[i].price.tag \in {"num", "inf"}
         /\ df.rows[i].sales.tag \in {"num", "inf"}
         /\ df.rows[i].price.tag = "num" => df.rows[i].price.v > 0
         /\ df.rows[i].sales.tag = "num" => df.rows[i].sales.v > 0
    /\ ret.value.original_size = Len(source.rows)
    /\ ret.value.cleaned_size = Len(df.rows)
    /\ ret.value.removed_records =
         ret.value.original_size - ret.value.cleaned_size
    /\ ret.value.removed_records >= 0

\* a load that removed a record and kept another
C2_Witness ==
  /\ Returned("load_data")
  /\ ret.value.removed_records > 0
  /\ ret.value.cleaned_size > 0

----------------------------------------------------------------------------
(* C3 *)

\* C3: when every category of the loaded dataset has fewer than
\* min_observations records (the empty dataset too), calculate_elasticity
\* returns a result set with zero rows instead of failing.
C3_EmptyResultReturned ==
  ( /\ ret.op = "calculate_elasticity"
    /\ Cleaned
    /\ "category" \in df.cols
    /\ \A c \in Categories : Count(c) < ret.args[1] )
  => /\ ret.status = "ok"
     /\ ret.value.rows = <<>>

----------------------------------------------------------------------------
(* C4 *)

\* C4: get_summary_stats on a result set with zero rows returns
\* total_categories = 0 and 0 for inelastic_pct and avg_elasticity, and does
\* not raise (stated for a session whose load_data returned).
C4_EmptySummaryIsZero ==
  ( /\ ret.op = "get_summary_stats"
    /\ Cleaned
    /\ "category" \in df.cols
    /\ elasticity_results.exists
    /\ elasticity_results.rows = <<>> )
  => /\ ret.status = "ok"
     /\ ret.value.total_categories = 0
     /\ ret.value.inelastic_pct = Zero
     /\ ret.value.avg_elasticity = Zero

----------------------------------------------------------------------------
(* C5 *)

\* C5: load_data fails whenever one of the three named columns is absent
\* from the file.
C5_MissingColumnFailsLoad ==
  (ret.op = "load_data" /\ source.cols # AllCols) => ret.status = "raise"

----------------------------------------------------------------------------
(* C6 *)

\* C6: the returned result set is sorted by elasticity, descending: each row's
\* elasticity is >= the next row's; and each row carries the elasticity of
\* its own category, with the demand_type and can_increase_price of that
\* elasticity.
C6_SortedDescending ==
  Returned("calculate_elasticity") =>
    LET rows == ret.value.rows
    IN  /\ \A i \in 1..(Len(rows) - 1) :
             rows[i].elasticity[1] * rows[i + 1].elasticity[2]
               >= rows[i + 1].elasticity[1] * rows[i].elasticity[2]
        /\ \A i \in 1..Len(rows) :
             /\ rows[i].elasticity = FitSlope(CatData(df.rows, rows[i].category))
             /\ rows[i].demand_type = IntervalLabel(Magnitude(rows[i].elasticity))
             /\ rows[i].can_increase_price = "Yes"
                  <=> rows[i].elasticity[1] <= rows[i].elasticity[2]

\* a returned result set of two rows with different elasticities
C6_Witness ==
  /\ Returned("calculate_elasticity")
  /\ Len(ret.value.rows) = 2
  /\ ret.value.rows[1].elasticity # ret.value.rows[2].elasticity

----------------------------------------------------------------------------
(* C7 *)

\* C7: _classify_demand gives every elasticity the label of the interval its
\* magnitude lies in (|e| < 0.5 Highly Inelastic, 0.5 <= |e| < 1 Inelastic,
\* |e| = 1 Unit Elastic, 1 < |e| < 1.5 Elastic, |e| >= 1.5 Highly Elastic),
\* and e and -e get the same label.
C7_ClassifyByMagnitude ==
  ret.op = "_classify_demand" =>
    /\ ret.value.label = IntervalLabel(Magnitude(ret.args[1]))
    /\ ret.value.label = _classify_demand(Negated(ret.args[1]))

\* the call on -3/2, a boundary and a negative value: Highly Elastic
C7_Witness ==
  /\ ret.op = "_classify_demand"
  /\ ret.args[1] = <<-3, 2>>
  /\ ret.value.label = "Highly Elastic"

----------------------------------------------------------------------------
(* C8 *)

\* C8: in every row of the result set can_increase_price is 'Yes' exactly
\* when the signed elasticity is <= 1 and 'No' exactly when it is > 1.
C8_CanIncreasePriceSigned ==
  Returned("calculate_elasticity") =>
    \A i \in 1..Len(ret.value.rows) :
      LET e == ret.value.rows[i].elasticity
      IN  /\ ret.value.rows[i].can_increase_price \in {"Yes", "No"}
          /\ ret.value.rows[i].can_increase_price = "Yes" <=> e[1] <= e[2]
          /\ ret.value.rows[i].can_increase_price = "No" <=> e[1] > e[2]

\* a row of two records with an elasticity below -1, Highly Elastic by
\* magnitude, and can_increase_price 'Yes'
C8_Witness ==
  /\ Returned("calculate_elasticity")
  /\ \E i \in 1..Len(ret.value.rows) :
       /\ ret.value.rows[i].num_products = 2
       /\ ret.value.rows[i].elasticity[1] < -ret.value.rows[i].elasticity[2]
       /\ ret.value.rows[i].demand_type = "Highly Elastic"
       /\ ret.value.rows[i].can_increase_price = "Yes"

----------------------------------------------------------------------------
(* C9 *)

\* the row of the result set that a simulation of `category` reads
RowOf(category) ==
  elasticity_results.rows[CHOOSE i \in ResultIndices(elasticity_results, category) : TRUE]

\* p + q + p*q, which is (1 + p) * (1 + q) - 1
CrossTermChange(p, q) == RAdd(RAdd(p, q), RMul(p, q))

\* C9 as stated: the returned quantity_change_pct is elasticity * p, the
\* returned revenue_change_pct is (1 + p) * (1 + elasticity * p) - 1,
\* new_price is avg_price * (1 + p) and estimated_revenue_impact is
\* total_sales * revenue_change_pct.
C9_FractionsReturned ==
  Returned("simulate_price_change") =>
    LET row == RowOf(ret.args[1])
        p   == ret.args[2]
        q   == RMul(row.elasticity, p)
    IN  /\ ret.value.quantity_change_pct = q
        /\ ret.value.revenue_change_pct = CrossTermChange(p, q)
        /\ ret.value.new_price = RAdd(row.avg_price, RMul(row.avg_price, p))
        /\ ret.value.estimated_revenue_impact =
             RMul(FromInt(row.total_sales), ret.value.revenue_change_pct)

\* the row of the specification's scenario
ScenarioFrame ==
  [exists |-> TRUE, cols |-> ResultCols,
   rows |-> <<[category |-> "A", elasticity |-> <<3, 5>>,
               avg_price |-> <<100, 1>>, total_sales |-> 50000,
               num_products |-> 10, demand_type |-> "Inelastic",
               can_increase_price |-> "Yes"]>>]

\* C9 amended: the two returned percentages are in percent: the returned
\* quantity_change_pct is 100 * elasticity * p and the returned
\* revenue_change_pct is 100 * ((1 + p) * (1 + elasticity * p) - 1);
\* new_price is avg_price * (1 + p) and estimated_revenue_impact is
\* total_sales * ((1 + p) * (1 + elasticity * p) - 1).  The scenario
\* (elasticity 0.6, avg_price 100, total_sales 50000, p = 0.05) returns
\* quantity_change_pct 3, revenue_change_pct 8.15, new_price 105 and
\* estimated_revenue_impact 4075.
C9_PercentagesReturned ==
  /\ Returned("simulate_price_change") =>
       LET row == RowOf(ret.args[1])
           p   == ret.args[2]
           q   == RMul(row.elasticity, p)
       IN  /\ ret.value.category = ret.args[1]
           /\ ret.value.quantity_change_pct = RMul(Hundred, q)
           /\ ret.value.revenue_change_pct = RMul(Hundred, CrossTermChange(p, q))
           /\ ret.value.new_price = RAdd(row.avg_price, RMul(row.avg_price, p))
           /\ ret.value.estimated_revenue_impact =
                RMul(FromInt(row.total_sales), CrossTermChange(p, q))
  /\ LET scenario == Simulate(ScenarioFrame, "A", <<1, 20>>)
     IN  /\ scenario[1] = "ok"
         /\ scenario[2].quantity_change_pct = <<3, 1>>
         /\ scenario[2].revenue_change_pct = <<163, 20>>
         /\ scenario[2].new_price = <<105, 1>>
         /\ scenario[2].estimated_revenue_impact = <<4075, 1>>

\* a simulation of a category whose elasticity is not 0
C9_Witness ==
  /\ Returned("simulate_price_change")
  /\ ret.value.elasticity[1] # 0
  /\ ret.value.quantity_change_pct # Zero
  /\ ret.value.estimated_revenue_impact # Zero

----------------------------------------------------------------------------
(* C10 *)

\* C10: simulate_price_change with a category that no row of the result set
\* has (or before there is a result set) returns None; it does not raise
\* (stated for a session whose load_data returned).
C10_UnknownCategoryReturnsNone ==
  ( /\ ret.op = "simulate_price_change"
    /\ Cleaned
    /\ "category" \in df.cols
    /\ ~InResult(elasticity_results, ret.args[1]) )
  => ret.status = "none"

----------------------------------------------------------------------------
(* C11 *)

\* the fit of the category raises: one of its records has a price of inf
FitFails(category) ==
  \E i \in 1..Len(df.rows) :
    df.rows[i].category = category /\ df.rows[i].price.tag = "inf"

\* C11: when the fit of a category with at least min_observations records
\* fails, calculate_elasticity is not aborted: it returns, and every other
\* category with at least min_observations records whose fit succeeds is in
\* the returned result set with its own slope and record count.
C11_FitFailureIsolated ==
  ( /\ ret.op = "calculate_elasticity"
    /\ Cleaned
    /\ "category" \in df.cols
    /\ \E c \in Categories : Count(c) >= ret.args[1] /\ FitFails(c) )
  => /\ ret.status = "ok"
     /\ \A d \in Categories :
          (Count(d) >= ret.args[1] /\ ~FitFails(d)) =>
            \E i \in ResultIndices(ret.value, d) :
              /\ ret.value.rows[i].elasticity = FitSlope(CatData(df.rows, d))
              /\ ret.value.rows[i].num_products = Count(d)

----------------------------------------------------------------------------
(* C12 *)

\* the calls that read the results of the analysis
Readers == {"get_summary_stats", "simulate_price_change",
            "get_inelastic_categories", "get_correlation"}

\* the call written down just before the i-th one, in the same run
CalledBefore(i, op, status) ==
  /\ i > 1
  /\ app.calls[i - 1].op = op
  /\ app.calls[i - 1].status = status

\* C12: in a session of the app, whatever the reruns, calculate_elasticity
\* is called only with data_loaded true, data_loaded is set only right after
\* load_data returned without error, the four readers of the results are
\* called only with analysis_done true, and analysis_done is set only right
\* after calculate_elasticity returned without error; so a session with
\* data_loaded holds the frame load_data returned, and a session with
\* analysis_done has data_loaded and holds the results calculate_elasticity
\* returned.
C12_LoadEstimateThenRead ==
  /\ \A i \in 1..Len(app.calls) :
       LET call == app.calls[i]
       IN  /\ call.op = "calculate_elasticity" => call.data_loaded
           /\ call.op \in Readers => call.analysis_done
           /\ call.op = "data_loaded = True" =>
                CalledBefore(i, "load_data", "ok")
           /\ call.op = "analysis_done = True" =>
                CalledBefore(i, "calculate_elasticity", "ok")
  /\ app.data_loaded => Cleaned
  /\ app.analysis_done =>
       /\ app.data_loaded
       /\ elasticity_results.exists
       /\ elasticity_results.cols = ResultCols
       /\ elasticity_results.rows # <<>>

\* a run of the script in a session where the data was loaded and the
\* analysis done by earlier runs: the button of the simulation was pressed,
\* and the run called the summary, the inelastic categories, the simulation
\* and the correlation, in this order
C12_Witness ==
  /\ app.pc = "idle"
  /\ app.data_loaded
  /\ app.analysis_done
  /\ Len(app.calls) = 4
  /\ app.calls[1].op = "get_summary_stats"
  /\ app.calls[2].op = "get_inelastic_categories"
  /\ app.calls[3].op = "simulate_price_change"
  /\ app.calls[3].status = "ok"
  /\ app.calls[4].op = "get_correlation"

====
